---- MODULE Spec2Model ----
(***************************************************************************)
(* aave-cap-alerts: the monitoring engine.                                 *)
(*                                                                         *)
(* monitor.Service.Run starts one goroutine per assetWatcher and waits for *)
(* the context to be cancelled; assetWatcher.run polls once on start and    *)
(* then on every tick of its ticker; assetWatcher.check fetches decimals   *)
(* (once), fetches totalSupply, evaluates the triggers and hands a         *)
(* SupplyChangeEvent to every notifier.                                    *)
(*                                                                         *)
(* A *big.Int / pointer that may be nil is a set with at most one element: *)
(* {} is nil and {v} holds v.                                              *)
(***************************************************************************)
EXTENDS Integers, Sequences, FiniteSets, TLC

\* ---------------------------------------------------------------- bounds
\* Supplies the chain can report: 0 and SupplyBase .. SupplyBase + MaxDelta.
\* SupplyBase is large enough for "exactly 10%" (10 -> 11) to be a case.
SupplyBase == 10
MaxDelta == 3
\* Number of notifiers main may configure (buildNotifiers yields 0..2).
MaxNotifiers == 2
\* Number of assets of the configuration in the several-watcher runs.
MaxAssets == 2

Nil == {}
Val(p) == CHOOSE x \in p : TRUE

AllSupplies == {0} \cup (SupplyBase .. (SupplyBase + MaxDelta))
\* uint8 values the remote decimals() call can answer.
DecimalsValues == {6, 18}
\* Targets parseBigInt can yield: nil, or any integer the string denotes.
AllTargets == {Nil} \cup {{t} : t \in AllSupplies \cup {-1, SupplyBase + MaxDelta + 1}}

VARIABLES
    \* the configuration config.Load returned
    cfg,                \* cfg.Assets: the AssetConfig records, in file order
    \* configuration, fixed by NewService / main
    nAssets,            \* len(s.assets)
    nNotifiers,         \* len(s.notifiers)
    address,            \* a.address, per watcher
    targetTotalSupply,  \* a.targetTotalSupply, per watcher (nil or a value)
    notifyOnIncrease,   \* a.notifyOnIncrease
    notifyOnDecrease,   \* a.notifyOnDecrease
    pollInterval,       \* a.pollInterval, in seconds
    \* the remote chain: the supplies each token may report and the
    \* decimals a token may report
    chain,
    \* watcher state
    decimalsLoaded,     \* a.decimalsLoaded
    decimals,           \* a.decimals
    lastTotalSupply,    \* a.lastTotalSupply (nil or a value)
    \* client state
    decimalsCache,      \* c.decimalsCache: address -> nil or a value
    \* control
    cancelled,          \* ctx.Done() is closed
    runPc,              \* position of Service.Run
    spawned,            \* goroutines Service.Run has started
    runErr,             \* what Service.Run returned
    mainExit,           \* how main ended
    pc,                 \* position of each watcher goroutine
    tick,               \* a tick is waiting in ticker.C
    \* locals of the check in progress (kept until run has handled its result)
    totalSupply,        \* the fetched supply (nil before the fetch)
    reasons,            \* result of evaluateTriggers
    event,              \* the SupplyChangeEvent built (nil if none)
    attempts,           \* the notifier.Notify calls made, in order
    lastCheck,          \* how the check returned, until run has handled it
    \* history
    decimalsFetched,    \* times a.decimals was assigned (saturates at 2)
    crossArmed,         \* a supply below target was recorded since the last
                        \* target-crossing event
    crossUnarmed,       \* a target-crossing event was built while not armed
    observed,           \* the answer of the watcher's latest successful
                        \* totalSupply call (nil before the first)
    remoteDecimals,     \* per address: remote decimals() calls that
                        \* succeeded (saturates at MaxAssets + 1)
    runBase             \* the answer that began the current run of
                        \* answers each at most 10% above the one before

cfgVars == <<cfg, nAssets, nNotifiers, address, targetTotalSupply,
             notifyOnIncrease, notifyOnDecrease, pollInterval, chain>>
watcherVars == <<decimalsLoaded, decimals, lastTotalSupply>>
checkVars == <<totalSupply, reasons, event, attempts, lastCheck>>
histVars == <<decimalsFetched, crossArmed, crossUnarmed, observed,
             remoteDecimals, runBase>>
runVars == <<runPc, spawned, runErr, mainExit>>
vars == <<cfgVars, watcherVars, decimalsCache, cancelled, runVars, pc, tick,
          checkVars, histVars>>

Watchers == 1 .. nAssets
Notifiers == 1 .. nNotifiers

\* ------------------------------------------------------- pure functions

\* Mutant: the threshold the function's name states, 1% instead of 10%.
increasedByMoreThanOnePercentLiteral(oldSupply, newSupply) ==
    IF oldSupply = Nil \/ Val(oldSupply) <= 0
    THEN FALSE
    ELSE newSupply * 100 > Val(oldSupply) * 101

\* increasedByMoreThanOnePercent(oldSupply, newSupply)
increasedByMoreThanOnePercent(oldSupply, newSupply) ==
    IF oldSupply = Nil \/ Val(oldSupply) <= 0
    THEN FALSE
    ELSE newSupply * 100 > Val(oldSupply) * 110

\* The case 1 arm of evaluateTriggers' switch.
IncreaseFires(last, inc, newSupply) ==
    inc /\ increasedByMoreThanOnePercent(last, newSupply)

\* Mutant: the decrease reason is added whatever the flag is.
DecreaseFiresAlways(dec) == TRUE

\* The case -1 arm of evaluateTriggers' switch.
DecreaseFires(dec) == dec

\* Mutant: a level check, the supply is at or above target.
TargetFiresLevel(last, target, newSupply) ==
    /\ target # Nil
    /\ last # Nil
    /\ newSupply >= Val(target)

\* Mutant: the target is crossed in either direction.
TargetFiresEitherWay(last, target, newSupply) ==
    /\ target # Nil
    /\ last # Nil
    /\ \/ Val(last) < Val(target) /\ newSupply >= Val(target)
       \/ Val(last) >= Val(target) /\ newSupply < Val(target)

\* The target test of evaluateTriggers.
TargetFires(last, target, newSupply) ==
    /\ target # Nil
    /\ last # Nil
    /\ Val(last) < Val(target)
    /\ newSupply >= Val(target)

\* Mutant: the target reason is appended before the directional one.
evaluateTriggersTargetFirst(last, target, inc, dec, newSupply) ==
    LET directional ==
            IF last = Nil THEN <<>>
            ELSE IF newSupply > Val(last)
                 THEN IF IncreaseFires(last, inc, newSupply)
                      THEN << <<"increase", Val(last), newSupply>> >>
                      ELSE <<>>
            ELSE IF newSupply < Val(last)
                 THEN IF DecreaseFires(dec)
                      THEN << <<"decrease", Val(last), newSupply>> >>
                      ELSE <<>>
            ELSE <<>>
        crossing ==
            IF TargetFires(last, target, newSupply)
            THEN << <<"target", Val(target)>> >>
            ELSE <<>>
    IN  crossing \o directional

\* a.evaluateTriggers(newSupply) with a = [lastTotalSupply |-> last, ...].
\* A reason string is modelled by its kind and the values formatted into it.
evaluateTriggers(last, target, inc, dec, newSupply) ==
    LET directional ==
            IF last = Nil THEN <<>>
            ELSE IF newSupply > Val(last)
                 THEN IF IncreaseFires(last, inc, newSupply)
                      THEN << <<"increase", Val(last), newSupply>> >>
                      ELSE <<>>
            ELSE IF newSupply < Val(last)
                 THEN IF DecreaseFires(dec)
                      THEN << <<"decrease", Val(last), newSupply>> >>
                      ELSE <<>>
            ELSE <<>>
        crossing ==
            IF TargetFires(last, target, newSupply)
            THEN << <<"target", Val(target)>> >>
            ELSE <<>>
    IN  directional \o crossing

Kinds(rs) == {rs[i][1] : i \in DOMAIN rs}


\* ------------------------------------------- configuration, NewService

\* The seconds of main's default poll interval, 1 * time.Minute.
DefaultPoll == 60

Digits == <<"0", "1", "2", "3", "4", "5", "6", "7", "8", "9">>
IsDigit(c) == \E i \in DOMAIN Digits : Digits[i] = c
DigitOf(c) == (CHOOSE i \in DOMAIN Digits : Digits[i] = c) - 1

\* The value of a non-empty string of decimal digits.
RECURSIVE ParseDigits(_)
ParseDigits(s) ==
    IF s = <<>> THEN 0
    ELSE ParseDigits(SubSeq(s, 1, Len(s) - 1)) * 10 + DigitOf(s[Len(s)])

\* new(big.Int).SetString(s, 10): an optional sign, then one or more
\* decimal digits and nothing else. A string is a sequence of characters.
SetString(s) ==
    LET signed == s # <<>> /\ s[1] \in {"+", "-"}
        body == IF signed THEN Tail(s) ELSE s
    IN  IF body = <<>> \/ \E i \in DOMAIN body : ~IsDigit(body[i])
        THEN [ok |-> FALSE, value |-> 0]
        ELSE [ok |-> TRUE,
              value |-> IF signed /\ s[1] = "-" THEN 0 - ParseDigits(body)
                                                ELSE ParseDigits(body)]

\* parseBigInt(v): (nil, nil) for the empty string, an error for a string
\* SetString rejects, the value otherwise.
parseBigInt(v) ==
    IF v = <<>> THEN [err |-> FALSE, value |-> Nil]
    ELSE IF ~SetString(v).ok THEN [err |-> TRUE, value |-> Nil]
    ELSE [err |-> FALSE, value |-> {SetString(v).value}]

\* valueOrDefault(v, fallback), v a *bool.
valueOrDefault(v, fallback) == IF v = Nil THEN fallback ELSE Val(v)

\* time.ParseDuration on the interval strings the configurations use; the
\* duration is in seconds.
ParseDuration(s) ==
    CASE s = "30s" -> [ok |-> TRUE, d |-> 30]
      [] s = "0s"  -> [ok |-> TRUE, d |-> 0]
      [] s = "-5s" -> [ok |-> TRUE, d |-> 0 - 5]
      [] OTHER     -> [ok |-> FALSE, d |-> 0]

\* An address string of the file is the empty string, a string that is no
\* hex address, or the hex form of token address addr.
EmptyAddress == [kind |-> "empty", addr |-> 0]
TextAddress == [kind |-> "text", addr |-> 0]
HexAddress(n) == [kind |-> "hex", addr |-> n]
IsHexAddress(a) == a.kind = "hex"
HexToAddress(a) == a.addr

\* The error NewService returns for one AssetConfig (lines 37-67), "nil" if
\* there is none.
AssetError(a) ==
    IF a.Address = EmptyAddress THEN "address must be provided"
    ELSE IF ~IsHexAddress(a.Address) THEN "address is not a valid hex string"
    ELSE IF parseBigInt(a.TargetCapTokens).err THEN "target threshold"
    ELSE IF a.PollInterval # "" /\ ~ParseDuration(a.PollInterval).ok
         THEN "parse poll interval"
    ELSE IF a.PollInterval # "" /\ ParseDuration(a.PollInterval).d <= 0
         THEN "poll interval must be positive"
    ELSE "nil"

\* The assetWatcher NewService builds from a valid AssetConfig (lines 49-67).
NewWatcher(a, defaultPoll) ==
    [ address |-> HexToAddress(a.Address),
      targetTotalSupply |-> parseBigInt(a.TargetCapTokens).value,
      notifyOnIncrease |-> valueOrDefault(a.NotifyOnIncrease, TRUE),
      notifyOnDecrease |-> valueOrDefault(a.NotifyOnDecrease, FALSE),
      pollInterval |-> IF a.PollInterval # "" THEN ParseDuration(a.PollInterval).d
                                              ELSE defaultPoll ]

\* Mutant: an asset that fails validation is skipped (continue, not return).
NewServiceSkipsInvalid(assets, defaultPoll) ==
    IF defaultPoll <= 0
    THEN [err |-> "default poll interval must be positive", assets |-> <<>>]
    ELSE LET good == SelectSeq(assets, LAMBDA a : AssetError(a) = "nil")
         IN  [err |-> "nil",
              assets |-> [i \in DOMAIN good |-> NewWatcher(good[i], defaultPoll)]]

\* NewService(client, cfg, notifiers, defaultPoll): the error of the first
\* asset that fails validation and no Service, or the Service's watchers.
NewService(assets, defaultPoll) ==
    IF defaultPoll <= 0
    THEN [err |-> "default poll interval must be positive", assets |-> <<>>]
    ELSE LET bad == {i \in DOMAIN assets : AssetError(assets[i]) # "nil"}
         IN  IF bad # {}
             THEN [err |-> AssetError(assets[CHOOSE i \in bad : \A j \in bad : i <= j]),
                   assets |-> <<>>]
             ELSE [err |-> "nil",
                   assets |-> [i \in DOMAIN assets |-> NewWatcher(assets[i], defaultPoll)]]

\* The decimal string of an integer, as a configuration file writes it.
RECURSIVE FormatNat(_)
FormatNat(n) ==
    IF n < 10 THEN <<Digits[n + 1]>>
    ELSE FormatNat(n \div 10) \o <<Digits[(n % 10) + 1]>>
FormatInt(n) == IF n < 0 THEN <<"-">> \o FormatNat(0 - n) ELSE FormatNat(n)
\* target_cap_tokens for a target: the empty string for none.
FormatTarget(t) == IF t = Nil THEN <<>> ELSE FormatInt(Val(t))

\* An AssetConfig with a hex address.
Asset(addr, target, inc, dec, poll) ==
    [ Address |-> HexAddress(addr),
      TargetCapTokens |-> target,
      NotifyOnIncrease |-> inc,
      NotifyOnDecrease |-> dec,
      PollInterval |-> poll ]

\* ------------------------------------------------------------- initial

\* The state in which main calls NewService (line 66): there is no Service
\* and no watcher, the decimals cache of aave.NewClient is empty, the
\* context of signal.NotifyContext may be cancelled at any time.
InitState ==
    /\ nAssets = 0
    /\ address = <<>>
    /\ targetTotalSupply = <<>>
    /\ notifyOnIncrease = <<>>
    /\ notifyOnDecrease = <<>>
    /\ pollInterval = <<>>
    /\ decimalsLoaded = <<>>
    /\ decimals = <<>>
    /\ lastTotalSupply = <<>>
    /\ decimalsCache = [a \in DOMAIN chain.supplies |-> Nil]
    /\ cancelled = FALSE
    /\ runPc = "new"
    /\ spawned = 0
    /\ runErr = "pending"
    /\ mainExit = "running"
    /\ pc = <<>>
    /\ tick = <<>>
    /\ totalSupply = <<>>
    /\ reasons = <<>>
    /\ event = <<>>
    /\ attempts = <<>>
    /\ lastCheck = <<>>
    /\ decimalsFetched = <<>>
    /\ crossArmed = <<>>
    /\ crossUnarmed = <<>>
    /\ observed = <<>>
    /\ runBase = <<>>
    /\ remoteDecimals = [a \in DOMAIN chain.supplies |-> 0]

\* One asset, one notifier, every target and every flag combination (a flag
\* is left out or set against its default), every supply value.
Init ==
    /\ cfg \in {[Assets |-> <<Asset(1, FormatTarget(t), inc, dec, "")>>] :
                  t \in AllTargets, inc \in {Nil, {FALSE}}, dec \in {Nil, {TRUE}}}
    /\ nNotifiers = 1
    /\ chain = [supplies |-> [a \in {1} |-> AllSupplies], decimals |-> DecimalsValues]
    /\ InitState

\* ------------------------------------------------------------ main, Run

Alive == mainExit = "running"

\* main, lines 66-69: NewService returns an error and log.Fatalf ends the
\* process, or it returns the Service with its watchers and main goes on to
\* Run.
MainBuild ==
    /\ Alive
    /\ runPc = "new"
    /\ LET r == NewService(cfg.Assets, DefaultPoll)
           W == DOMAIN r.assets
       IN  IF r.err # "nil"
           THEN /\ mainExit' = "fatal"
                /\ UNCHANGED <<nAssets, address, targetTotalSupply,
                               notifyOnIncrease, notifyOnDecrease, pollInterval,
                               watcherVars, runPc, pc, tick, checkVars,
                               decimalsFetched, crossArmed, crossUnarmed,
                               observed, runBase>>
           ELSE /\ nAssets' = Len(r.assets)
                /\ address' = [w \in W |-> r.assets[w].address]
                /\ targetTotalSupply' = [w \in W |-> r.assets[w].targetTotalSupply]
                /\ notifyOnIncrease' = [w \in W |-> r.assets[w].notifyOnIncrease]
                /\ notifyOnDecrease' = [w \in W |-> r.assets[w].notifyOnDecrease]
                /\ pollInterval' = [w \in W |-> r.assets[w].pollInterval]
                /\ decimalsLoaded' = [w \in W |-> FALSE]
                /\ decimals' = [w \in W |-> 0]
                /\ lastTotalSupply' = [w \in W |-> Nil]
                /\ pc' = [w \in W |-> "unspawned"]
                /\ tick' = [w \in W |-> FALSE]
                /\ totalSupply' = [w \in W |-> Nil]
                /\ reasons' = [w \in W |-> <<>>]
                /\ event' = [w \in W |-> Nil]
                /\ attempts' = [w \in W |-> <<>>]
                /\ lastCheck' = [w \in W |-> "none"]
                /\ decimalsFetched' = [w \in W |-> 0]
                /\ crossArmed' = [w \in W |-> FALSE]
                /\ crossUnarmed' = [w \in W |-> FALSE]
                /\ observed' = [w \in W |-> Nil]
                /\ runBase' = [w \in W |-> Nil]
                /\ runPc' = "call"
                /\ mainExit' = mainExit
    /\ UNCHANGED <<cfg, nNotifiers, chain, decimalsCache, cancelled, spawned,
                   runErr, remoteDecimals>>

\* Service.Run, lines 82-84: the empty-assets check.
RunEnter ==
    /\ Alive
    /\ runPc = "call"
    /\ IF nAssets = 0
       THEN /\ runPc' = "returned"
            /\ runErr' = "no assets configured"
       ELSE /\ runPc' = "spawn"
            /\ runErr' = runErr
    /\ UNCHANGED <<cfgVars, watcherVars, decimalsCache, cancelled, spawned,
                   mainExit, pc, tick, checkVars, histVars>>

\* Service.Run, lines 86-88: one go statement.
RunSpawn ==
    /\ Alive
    /\ runPc = "spawn"
    /\ spawned < nAssets
    /\ spawned' = spawned + 1
    /\ pc' = [pc EXCEPT ![spawned + 1] = "spawned"]
    /\ runPc' = IF spawned + 1 = nAssets THEN "wait" ELSE "spawn"
    /\ UNCHANGED <<cfgVars, watcherVars, decimalsCache, cancelled, runErr,
                   mainExit, tick, checkVars, histVars>>

\* Mutant: Run does not wait for the context.
RunMayReturnAtOnce == TRUE

\* What Service.Run waits for before it returns (line 90).
RunMayReturn == cancelled

\* Service.Run, lines 90-91: <-ctx.Done(); return ctx.Err().
RunReturn ==
    /\ Alive
    /\ runPc = "wait"
    /\ RunMayReturn
    /\ runPc' = "returned"
    /\ runErr' = "context canceled"
    /\ UNCHANGED <<cfgVars, watcherVars, decimalsCache, cancelled, spawned,
                   mainExit, pc, tick, checkVars, histVars>>

\* Mutant: every error of Run is fatal.
MainFatalAnyError(err) == err # "nil"

\* main, line 72: err != nil && !errors.Is(err, context.Canceled) is fatal.
MainFatal(err) == err # "nil" /\ err # "context canceled"

\* main, lines 72-76: log.Fatalf or "shutdown complete"; the process ends
\* and every goroutine with it.
MainExit ==
    /\ Alive
    /\ runPc = "returned"
    /\ mainExit' = IF MainFatal(runErr) THEN "fatal" ELSE "clean"
    /\ UNCHANGED <<cfgVars, watcherVars, decimalsCache, cancelled, runPc,
                   spawned, runErr, pc, tick, checkVars, histVars>>

\* SIGINT / SIGTERM closes the context of signal.NotifyContext.
Cancel ==
    /\ Alive
    /\ ~cancelled
    /\ cancelled' = TRUE
    /\ UNCHANGED <<cfgVars, watcherVars, decimalsCache, runVars, pc, tick,
                   checkVars, histVars>>


\* ------------------------------------------------------ assetWatcher.run

\* Mutant: every check calls client.Decimals.
NeedsDecimalsAlways(loaded) == TRUE

\* check, line 146: whether this check calls client.Decimals.
NeedsDecimals(loaded) == ~loaded

\* Mutant: client.Decimals holds decimalsLocker across its remote call.
DecimalsLockHeldInCall(p) == p = "decimals"

\* Client.Decimals, lines 223-258: whether a goroutine at position p holds
\* c.decimalsLocker. The read lock is released at line 228, before the
\* remote call, and the write lock is taken at line 256, after it.
DecimalsLockHeld(p) == FALSE

\* The start of a.check (lines 146-147 and 155-161): a watcher that holds no
\* decimals calls client.Decimals, which takes the read lock and answers
\* from its cache (lines 223-228) or sends the remote call; a watcher that
\* holds them goes on to the totalSupply call.
BeginCheck(w) ==
    /\ NeedsDecimals(decimalsLoaded[w])
       => \A u \in Watchers \ {w} : ~DecimalsLockHeld(pc[u])
    /\ IF NeedsDecimals(decimalsLoaded[w])
       THEN IF decimalsCache[address[w]] # Nil
            THEN /\ decimals' = [decimals EXCEPT ![w] = Val(decimalsCache[address[w]])]
                 /\ decimalsLoaded' = [decimalsLoaded EXCEPT ![w] = TRUE]
                 /\ decimalsFetched' = [decimalsFetched EXCEPT ![w] = IF @ < 2 THEN @ + 1 ELSE @]
                 /\ pc' = [pc EXCEPT ![w] = "supply"]
            ELSE /\ pc' = [pc EXCEPT ![w] = "decimals"]
                 /\ UNCHANGED <<decimals, decimalsLoaded, decimalsFetched>>
       ELSE /\ pc' = [pc EXCEPT ![w] = "supply"]
            /\ UNCHANGED <<decimals, decimalsLoaded, decimalsFetched>>
    /\ UNCHANGED <<cfgVars, lastTotalSupply, decimalsCache, cancelled, runVars,
                   checkVars, crossArmed, crossUnarmed, observed,
                   remoteDecimals, runBase>>

\* run, lines 125-129: the goroutine creates its ticker and begins the
\* startup check.
WatcherStart(w) ==
    /\ Alive
    /\ pc[w] = "spawned"
    /\ tick' = tick
    /\ BeginCheck(w)

\* The ticker delivers a tick (ticker.C holds one tick; a tick that finds it
\* full is dropped). The ticker exists from line 125 until run returns.
Tick(w) ==
    /\ Alive
    /\ pc[w] \in {"decimals", "supply", "notify", "returned", "select"}
    /\ ~tick[w]
    /\ tick' = [tick EXCEPT ![w] = TRUE]
    /\ UNCHANGED <<cfgVars, watcherVars, decimalsCache, cancelled, runVars, pc,
                   checkVars, histVars>>

\* Mutant: the select has no <-ticker.C case.
SelectReadyNoTick(done, ticked) == IF done THEN {"done"} ELSE {}

\* Mutant: the select has no <-ctx.Done() case.
SelectReadyNoDone(done, ticked) == IF ticked THEN {"tick"} ELSE {}

\* run, lines 134-137: the cases of the select that are ready. Go picks
\* among the ready cases at random.
SelectReady(done, ticked) ==
    (IF done THEN {"done"} ELSE {}) \cup (IF ticked THEN {"tick"} ELSE {})

\* run, lines 135-136: the select takes <-ctx.Done() and run returns.
WatcherStop(w) ==
    /\ Alive
    /\ pc[w] = "select"
    /\ "done" \in SelectReady(cancelled, tick[w])
    /\ pc' = [pc EXCEPT ![w] = "stopped"]
    /\ UNCHANGED <<cfgVars, watcherVars, decimalsCache, cancelled, runVars,
                   tick, checkVars, histVars>>

\* Mutant: a tick is taken wherever the goroutine is, also inside a check.
ReceivesTickAnywhere(p) == p \in {"select", "decimals", "supply", "notify"}

\* run, lines 133-137: the one place where the goroutine receives from
\* ticker.C is the select of its loop.
ReceivesTick(p) == p = "select"

\* run, lines 137-138: the select takes <-ticker.C and a check begins.
WatcherTick(w) ==
    /\ Alive
    /\ ReceivesTick(pc[w])
    /\ "tick" \in SelectReady(cancelled, tick[w])
    /\ tick' = [tick EXCEPT ![w] = FALSE]
    /\ BeginCheck(w)

\* ---------------------------------------------------- assetWatcher.check

\* check, lines 148-150: what a failed client.Decimals leads to.
AfterDecimalsError == "return"

\* client.Decimals fails (lines 230-254) and check returns the error (lines
\* 148-150).
DecimalsFail(w) ==
    /\ Alive
    /\ pc[w] = "decimals"
    /\ IF AfterDecimalsError = "return"
       THEN /\ pc' = [pc EXCEPT ![w] = "returned"]
            /\ lastCheck' = [lastCheck EXCEPT ![w] = "fetch decimals"]
       ELSE /\ pc' = [pc EXCEPT ![w] = "supply"]
            /\ lastCheck' = lastCheck
    /\ UNCHANGED <<cfgVars, watcherVars, decimalsCache, cancelled, runVars,
                   tick, totalSupply, reasons, event, attempts, histVars>>

\* Mutant: the answer of the remote call is not stored.
CacheStoreNothing(cache, a, d) == cache

\* Client.Decimals, lines 256-258: c.decimalsCache[token] = decimals.
CacheStore(cache, a, d) == [cache EXCEPT ![a] = {d}]

\* The remote decimals() call answers d: client.Decimals stores it in the
\* cache (lines 256-258), check keeps it (lines 151-152) and goes on to the
\* totalSupply call.
DecimalsOk(w, d) ==
    /\ Alive
    /\ pc[w] = "decimals"
    /\ decimalsCache' = CacheStore(decimalsCache, address[w], d)
    /\ remoteDecimals' = [remoteDecimals EXCEPT ![address[w]] =
                            IF @ <= MaxAssets THEN @ + 1 ELSE @]
    /\ decimals' = [decimals EXCEPT ![w] = d]
    /\ decimalsLoaded' = [decimalsLoaded EXCEPT ![w] = TRUE]
    /\ decimalsFetched' = [decimalsFetched EXCEPT ![w] = IF @ < 2 THEN @ + 1 ELSE @]
    /\ pc' = [pc EXCEPT ![w] = "supply"]
    /\ UNCHANGED <<cfgVars, lastTotalSupply, cancelled, runVars, tick,
                   checkVars, crossArmed, crossUnarmed, observed, runBase>>

\* client.TotalSupply fails and check returns the error (lines 161-164).
SupplyFail(w) ==
    /\ Alive
    /\ pc[w] = "supply"
    /\ pc' = [pc EXCEPT ![w] = "returned"]
    /\ lastCheck' = [lastCheck EXCEPT ![w] = "fetch totalSupply"]
    /\ UNCHANGED <<cfgVars, watcherVars, decimalsCache, cancelled, runVars,
                   tick, totalSupply, reasons, event, attempts, histVars>>

\* Mutant: the first value is dispatched like a change (no return at 169).
CheckPathNotifyFirst(last, v, rs) ==
    IF last = Nil THEN "notify"
    ELSE IF v = Val(last) THEN "unchanged"
    ELSE IF Len(rs) = 0 THEN "silent"
    ELSE "notify"

\* Mutant: neither the return at 173 nor the one at 180 is taken.
CheckPathNoEarlyReturn(last, v, rs) ==
    IF last = Nil THEN "baseline" ELSE "notify"

\* Mutant: a change with no reason leaves the baseline alone (no line 179).
CheckPathSilentKeeps(last, v, rs) ==
    IF last = Nil THEN "baseline"
    ELSE IF v = Val(last) THEN "unchanged"
    ELSE IF Len(rs) = 0 THEN "unchanged"
    ELSE "notify"

\* Mutant: a rise with no reason leaves the baseline at the last level.
CheckPathRiseKeepsBaseline(last, v, rs) ==
    IF last = Nil THEN "baseline"
    ELSE IF v = Val(last) THEN "unchanged"
    ELSE IF Len(rs) = 0 THEN (IF v > Val(last) THEN "unchanged" ELSE "silent")
    ELSE "notify"

\* check, lines 166-181: the branch taken once totalSupply v is fetched;
\* rs is what evaluateTriggers returns.
CheckPath(last, v, rs) ==
    IF last = Nil THEN "baseline"
    ELSE IF v = Val(last) THEN "unchanged"
    ELSE IF Len(rs) = 0 THEN "silent"
    ELSE "notify"

\* Mutant: the event is built from the baseline as it is after line 201.
BuildEventAfterUpdate(w, v, rs) ==
    [ AssetName |-> w,
      AssetAddress |-> address[w],
      OldTotalSupply |-> {v},
      NewTotalSupply |-> {v},
      TargetTotalSupply |-> targetTotalSupply[w],
      Decimals |-> decimals[w],
      TriggerReasons |-> rs ]

\* check, lines 183-192: the event handed to the notifiers.
BuildEvent(w, v, rs) ==
    [ AssetName |-> w,
      AssetAddress |-> address[w],
      OldTotalSupply |-> lastTotalSupply[w],
      NewTotalSupply |-> {v},
      TargetTotalSupply |-> targetTotalSupply[w],
      Decimals |-> decimals[w],
      TriggerReasons |-> rs ]

\* Answer v is at or above the previous answer prev and at most 10% above
\* it (the complement, for a rise, of the test of lines 242-244).
SmallRise(prev, v) ==
    /\ prev # Nil
    /\ v >= Val(prev)
    /\ v * 100 <= Val(prev) * 110

\* client.TotalSupply answers v (lines 161-192): the first value becomes the
\* baseline, an unchanged value ends the check, a changed value is
\* evaluated and either recorded silently or put into an event.
SupplyOk(w, v) ==
    /\ Alive
    /\ pc[w] = "supply"
    /\ LET last == lastTotalSupply[w]
           target == targetTotalSupply[w]
           rs == evaluateTriggers(last, target, notifyOnIncrease[w],
                                  notifyOnDecrease[w], v)
           path == CheckPath(last, v, rs)
           crossed == path = "notify" /\ "target" \in Kinds(rs)
       IN  /\ totalSupply' = [totalSupply EXCEPT ![w] = {v}]
           /\ observed' = [observed EXCEPT ![w] = {v}]
           /\ runBase' = [runBase EXCEPT ![w] =
                            IF SmallRise(observed[w], v) THEN @ ELSE {v}]
           /\ reasons' = [reasons EXCEPT ![w] =
                            IF path \in {"silent", "notify"} THEN rs ELSE <<>>]
           /\ event' = [event EXCEPT ![w] =
                            IF path = "notify" THEN {BuildEvent(w, v, rs)} ELSE Nil]
           /\ lastTotalSupply' = [lastTotalSupply EXCEPT ![w] =
                            IF path \in {"baseline", "silent"} THEN {v} ELSE @]
           /\ pc' = [pc EXCEPT ![w] = IF path = "notify" THEN "notify" ELSE "returned"]
           /\ lastCheck' = [lastCheck EXCEPT ![w] = IF path = "notify" THEN @ ELSE path]
           /\ crossUnarmed' = [crossUnarmed EXCEPT ![w] = @ \/ (crossed /\ ~crossArmed[w])]
           /\ crossArmed' = [crossArmed EXCEPT ![w] =
                            IF crossed THEN FALSE
                            ELSE @ \/ (target # Nil /\ v < Val(target))]
    /\ UNCHANGED <<cfgVars, decimalsLoaded, decimals, decimalsCache, cancelled,
                   runVars, tick, attempts, decimalsFetched, remoteDecimals>>

\* Mutant: a notifier error ends the check.
AfterNotifyReturnOnError(ok) == IF ok THEN "next" ELSE "return"

\* check, lines 196-198: what the loop does after notifier.Notify returned.
AfterNotify(ok) == "next"

\* Mutant: a notifier that failed is called again.
NextNotifierRetry(as) ==
    IF as = <<>> THEN 1
    ELSE IF as[Len(as)].ok THEN as[Len(as)].notifier + 1
    ELSE as[Len(as)].notifier

\* check, line 195: the range loop goes through s.notifiers once; after the
\* calls as, the next notifier is the one that follows the last called.
NextNotifier(as) == Len(as) + 1

\* check, lines 195-199: one notifier.Notify call; an error is logged.
NotifyCall(w, ok) ==
    /\ Alive
    /\ pc[w] = "notify"
    /\ NextNotifier(attempts[w]) <= nNotifiers
    /\ attempts' = [attempts EXCEPT ![w] =
           Append(@, [notifier |-> NextNotifier(@), ok |-> ok, event |-> Val(event[w])])]
    /\ IF AfterNotify(ok) = "next"
       THEN UNCHANGED <<pc, lastCheck>>
       ELSE /\ pc' = [pc EXCEPT ![w] = "returned"]
            /\ lastCheck' = [lastCheck EXCEPT ![w] = "notify"]
    /\ UNCHANGED <<cfgVars, watcherVars, decimalsCache, cancelled, runVars,
                   tick, totalSupply, reasons, event, histVars>>

\* check, lines 201-202: the loop is over, the baseline advances, check
\* returns nil.
CheckFinish(w) ==
    /\ Alive
    /\ pc[w] = "notify"
    /\ NextNotifier(attempts[w]) > nNotifiers
    /\ lastTotalSupply' = [lastTotalSupply EXCEPT ![w] = totalSupply[w]]
    /\ pc' = [pc EXCEPT ![w] = "returned"]
    /\ lastCheck' = [lastCheck EXCEPT ![w] = "notified"]
    /\ UNCHANGED <<cfgVars, decimalsLoaded, decimals, decimalsCache, cancelled,
                   runVars, tick, totalSupply, reasons, event, attempts,
                   histVars>>

\* The errors check can return; every other result is nil.
CheckErrors == {"fetch decimals", "fetch totalSupply", "notify"}

\* Mutant: the goroutine returns when check returned an error.
AfterCheckStopOnError(result) ==
    IF result \in CheckErrors THEN "stopped" ELSE "select"

\* run, lines 129-131 and 138-140: whatever check returned, run goes to the
\* select of its loop.
AfterCheck(result) == "select"

\* run, lines 129-133 and 138-140: check has returned; run logs an error if
\* there is one and goes (back) to its select. The locals of check are gone.
WatcherLog(w) ==
    /\ Alive
    /\ pc[w] = "returned"
    /\ pc' = [pc EXCEPT ![w] = AfterCheck(lastCheck[w])]
    /\ totalSupply' = [totalSupply EXCEPT ![w] = Nil]
    /\ reasons' = [reasons EXCEPT ![w] = <<>>]
    /\ event' = [event EXCEPT ![w] = Nil]
    /\ attempts' = [attempts EXCEPT ![w] = <<>>]
    /\ lastCheck' = [lastCheck EXCEPT ![w] = "none"]
    /\ UNCHANGED <<cfgVars, watcherVars, decimalsCache, cancelled, runVars,
                   tick, histVars>>

\* ------------------------------------------------------- specifications

Next ==
    \/ MainBuild
    \/ RunEnter
    \/ RunSpawn
    \/ RunReturn
    \/ MainExit
    \/ Cancel
    \/ \E w \in Watchers : WatcherStart(w)
    \/ \E w \in Watchers : Tick(w)
    \/ \E w \in Watchers : WatcherStop(w)
    \/ \E w \in Watchers : WatcherTick(w)
    \/ \E w \in Watchers : DecimalsFail(w)
    \/ \E w \in Watchers : \E d \in chain.decimals : DecimalsOk(w, d)
    \/ \E w \in Watchers : SupplyFail(w)
    \/ \E w \in Watchers : \E v \in chain.supplies[address[w]] : SupplyOk(w, v)
    \/ \E w \in Watchers : \E ok \in BOOLEAN : NotifyCall(w, ok)
    \/ \E w \in Watchers : CheckFinish(w)
    \/ \E w \in Watchers : WatcherLog(w)

Spec == Init /\ [][Next]_vars


\* One asset with 0 .. MaxNotifiers notifiers, no target, every flag
\* combination.
InitDispatch ==
    /\ cfg \in {[Assets |-> <<Asset(1, <<>>, inc, dec, "")>>] :
                  inc \in {Nil, {FALSE}}, dec \in {Nil, {TRUE}}}
    /\ nNotifiers \in 0 .. MaxNotifiers
    /\ chain = [supplies |-> [a \in {1} |-> AllSupplies], decimals |-> DecimalsValues]
    /\ InitState

SpecDispatch == InitDispatch /\ [][Next]_vars

\* 0 .. MaxAssets assets with the flags left out (lines 53-54) and no
\* target, and one notifier: either an address each, the first token
\* reporting one of two supplies and the others a constant supply, or one
\* shared address with a constant supply.
InitMulti ==
    /\ nNotifiers = 1
    /\ \E n \in 0 .. MaxAssets :
          \/ /\ cfg = [Assets |-> [i \in 1 .. n |-> Asset(i, <<>>, Nil, Nil, "")]]
             /\ chain = [supplies |-> [a \in 1 .. n |->
                                        IF a = 1 THEN {SupplyBase, SupplyBase + MaxDelta}
                                                 ELSE {SupplyBase}],
                         decimals |-> {18}]
          \/ /\ n > 1
             /\ cfg = [Assets |-> [i \in 1 .. n |-> Asset(1, <<>>, Nil, Nil, "")]]
             /\ chain = [supplies |-> [a \in {1} |-> {SupplyBase}], decimals |-> {18}]
    /\ InitState

SpecMulti == InitMulti /\ [][Next]_vars


\* AssetConfig records that pass validation: everything left out, everything
\* set, a target string that denotes a negative integer.
ValidAssets ==
    { Asset(1, <<>>, Nil, Nil, ""),
      Asset(1, FormatInt(SupplyBase), {TRUE}, {TRUE}, "30s"),
      Asset(1, FormatInt(0 - 1), Nil, Nil, "") }

\* AssetConfig records with one fault each: no address, an address that is
\* no hex string, a target that is no integer, a poll interval that is no
\* duration, a poll interval that is not positive.
InvalidAssets ==
    LET a == Asset(1, <<>>, Nil, Nil, "")
    IN  { [a EXCEPT !.Address = EmptyAddress],
          [a EXCEPT !.Address = TextAddress],
          [a EXCEPT !.TargetCapTokens = <<"x">>],
          [a EXCEPT !.TargetCapTokens = <<"-">>],
          [a EXCEPT !.TargetCapTokens = <<"1", "x">>],
          [a EXCEPT !.PollInterval = "abc"],
          [a EXCEPT !.PollInterval = "0s"],
          [a EXCEPT !.PollInterval = "-5s"] }

\* 1 .. MaxAssets assets: one valid asset, or any sequence of valid and
\* invalid assets with at least one invalid asset in it.
InitConstruct ==
    /\ cfg \in {[Assets |-> as] :
                  as \in {x \in UNION {[1 .. n -> ValidAssets \cup InvalidAssets] :
                                          n \in 1 .. MaxAssets} :
                            Len(x) = 1 \/ \E i \in DOMAIN x : x[i] \in InvalidAssets}}
    /\ nNotifiers = 1
    /\ chain = [supplies |-> [a \in {1} |-> {SupplyBase, SupplyBase + MaxDelta}],
                decimals |-> {18}]
    /\ InitState

SpecConstruct == InitConstruct /\ [][Next]_vars


\* Fair scheduling of the goroutine that runs Service.Run.
FairSpecMulti ==
    /\ SpecMulti
    /\ WF_vars(RunEnter)
    /\ WF_vars(RunSpawn)
    /\ WF_vars(RunReturn)

\* The configurations of the construction runs, and 1 .. MaxAssets assets
\* with an address each whose tokens report a constant supply.
InitLive ==
    \/ InitConstruct
    \/ /\ nNotifiers = 1
       /\ \E n \in 1 .. MaxAssets :
             /\ cfg = [Assets |-> [i \in 1 .. n |-> Asset(i, <<>>, Nil, Nil, "")]]
             /\ chain = [supplies |-> [a \in 1 .. n |-> {SupplyBase}],
                         decimals |-> {18}]
       /\ InitState

\* Fair scheduling of main and of every watcher goroutine, a ticker that
\* keeps ticking, and a chain whose decimals and totalSupply calls, asked
\* again and again, are eventually answered.
FairSpecWatchers ==
    /\ InitLive
    /\ [][Next]_vars
    /\ WF_vars(MainBuild)
    /\ WF_vars(RunEnter)
    /\ WF_vars(RunSpawn)
    /\ \A w \in 1 .. MaxAssets :
          /\ WF_vars(w \in Watchers /\ WatcherStart(w))
          /\ WF_vars(w \in Watchers /\ Tick(w))
          /\ WF_vars(w \in Watchers /\ WatcherTick(w))
          /\ WF_vars(w \in Watchers /\ WatcherLog(w))
          /\ SF_vars(w \in Watchers /\ \E d \in chain.decimals : DecimalsOk(w, d))
          /\ SF_vars(w \in Watchers
                     /\ \E v \in chain.supplies[address[w]] : SupplyOk(w, v))

\* --------------------------------------------------------------- claims

\* The step in which watcher w's totalSupply call answers.
SupplyObserved(w) == pc[w] = "supply" /\ totalSupply'[w] # Nil
\* The same, for a watcher that already holds a baseline.
TrackingObserved(w) == SupplyObserved(w) /\ lastTotalSupply[w] # Nil
\* The step in which watcher w begins a check.
PollBegins(w) == pc[w] \in {"spawned", "select"} /\ pc'[w] \in {"decimals", "supply"}
\* Watcher w is inside a.check.
InPoll(w) == pc[w] \in {"decimals", "supply", "notify", "returned"}

\* C1 as stated: for every tracking watcher and current > previous >= 0, the
\* poll lists the increase reason iff notifyOnIncrease and
\* current*100 > previous*110.
C1_IncreaseIffOriginal ==
    [][\A w \in Watchers :
          (TrackingObserved(w) /\ Val(totalSupply'[w]) > Val(lastTotalSupply[w]))
          => (("increase" \in Kinds(reasons'[w]))
              <=> (notifyOnIncrease[w]
                   /\ Val(totalSupply'[w]) * 100 > Val(lastTotalSupply[w]) * 110))]_vars

\* C1 amended: for every tracking watcher and current > previous, the poll
\* lists the increase reason iff notifyOnIncrease, previous > 0 and
\* current*100 > previous*110; from a baseline of 0 it never does.
C1_IncreaseIff ==
    [][\A w \in Watchers :
          (TrackingObserved(w) /\ Val(totalSupply'[w]) > Val(lastTotalSupply[w]))
          => (("increase" \in Kinds(reasons'[w]))
              <=> (/\ notifyOnIncrease[w]
                   /\ Val(lastTotalSupply[w]) > 0
                   /\ Val(totalSupply'[w]) * 100 > Val(lastTotalSupply[w]) * 110))]_vars

\* An event with the increase reason, from a positive baseline.
C1_Witness ==
    \E w \in Watchers :
        /\ pc[w] = "notify"
        /\ "increase" \in Kinds(reasons[w])
        /\ Val(lastTotalSupply[w]) > 0
        /\ Val(totalSupply[w]) > Val(lastTotalSupply[w])

\* C2: a poll's event carries the target-crossing reason exactly when the
\* baseline before the poll is strictly below target and the observed
\* supply is at or above it; and every such event is preceded, since the
\* previous one, by a recorded supply strictly below target.
C2_TargetCrossing ==
    /\ [][\A w \in Watchers :
            SupplyObserved(w)
            => ((event'[w] # Nil /\ "target" \in Kinds(Val(event'[w]).TriggerReasons))
                <=> (/\ targetTotalSupply[w] # Nil
                     /\ lastTotalSupply[w] # Nil
                     /\ Val(lastTotalSupply[w]) < Val(targetTotalSupply[w])
                     /\ Val(totalSupply'[w]) >= Val(targetTotalSupply[w])))]_vars
    /\ [](\A w \in Watchers : ~crossUnarmed[w])

\* The 95 -> 105 crossing of target 100, scaled to the model's supplies.
C2_Witness ==
    \E w \in Watchers :
        /\ pc[w] = "notify"
        /\ targetTotalSupply[w] = {SupplyBase + 2}
        /\ lastTotalSupply[w] = {SupplyBase + 1}
        /\ totalSupply[w] = {SupplyBase + 2}
        /\ "target" \in Kinds(Val(event[w]).TriggerReasons)

\* C3: the first successful supply fetch only records the baseline and
\* calls no notifier, whatever the value, the target and the flags are.
C3_FirstObservationSilent ==
    /\ [][\A w \in Watchers :
            (SupplyObserved(w) /\ lastTotalSupply[w] = Nil)
            => /\ lastTotalSupply'[w] = totalSupply'[w]
               /\ event'[w] = Nil
               /\ attempts'[w] = <<>>
               /\ pc'[w] = "returned"
               /\ lastCheck'[w] = "baseline"]_vars
    /\ [](\A w \in Watchers : lastTotalSupply[w] = Nil => attempts[w] = <<>>)

\* A first observation already at or above target, with both flags set.
C3_Witness ==
    \E w \in Watchers :
        /\ pc[w] = "returned"
        /\ lastCheck[w] = "baseline"
        /\ targetTotalSupply[w] # Nil
        /\ Val(lastTotalSupply[w]) >= Val(targetTotalSupply[w])
        /\ notifyOnIncrease[w]
        /\ notifyOnDecrease[w]

\* C4: a tracking watcher's poll that observes its baseline calls no
\* notifier and leaves the baseline and every other watcher field as it was.
C4_UnchangedNoOp ==
    [][\A w \in Watchers :
          (TrackingObserved(w) /\ totalSupply'[w] = lastTotalSupply[w])
          => /\ lastTotalSupply'[w] = lastTotalSupply[w]
             /\ decimals'[w] = decimals[w]
             /\ decimalsLoaded'[w] = decimalsLoaded[w]
             /\ targetTotalSupply'[w] = targetTotalSupply[w]
             /\ notifyOnIncrease'[w] = notifyOnIncrease[w]
             /\ notifyOnDecrease'[w] = notifyOnDecrease[w]
             /\ address'[w] = address[w]
             /\ event'[w] = Nil
             /\ attempts'[w] = <<>>
             /\ pc'[w] = "returned"
             /\ lastCheck'[w] \notin CheckErrors]_vars

\* A poll that observed the baseline again has returned.
C4_Witness ==
    \E w \in Watchers :
        /\ pc[w] = "returned"
        /\ lastCheck[w] = "unchanged"
        /\ totalSupply[w] = lastTotalSupply[w]
        /\ attempts[w] = <<>>

\* C5: for every tracking watcher and current < previous, the poll lists
\* the decrease reason, and dispatches an event, iff notifyOnDecrease.
C5_DecreaseIff ==
    [][\A w \in Watchers :
          (TrackingObserved(w) /\ Val(totalSupply'[w]) < Val(lastTotalSupply[w]))
          => /\ ("decrease" \in Kinds(reasons'[w])) <=> notifyOnDecrease[w]
             /\ (event'[w] # Nil) <=> notifyOnDecrease[w]
             /\ (pc'[w] = "notify") <=> notifyOnDecrease[w]]_vars

\* An event for the smallest decrease the model has (by 1).
C5_Witness ==
    \E w \in Watchers :
        /\ pc[w] = "notify"
        /\ "decrease" \in Kinds(reasons[w])
        /\ Val(totalSupply[w]) + 1 = Val(lastTotalSupply[w])

\* C6: when a triggering poll returns, Notify was called on every
\* configured notifier, whichever of them failed, the poll reports no
\* error and the baseline is the observed supply.
C6_DispatchIsolated ==
    \A w \in Watchers :
        (pc[w] = "returned" /\ event[w] # Nil)
        => /\ {attempts[w][i].notifier : i \in DOMAIN attempts[w]} = Notifiers
           /\ Len(attempts[w]) = nNotifiers
           /\ lastCheck[w] \notin CheckErrors
           /\ lastTotalSupply[w] = Val(event[w]).NewTotalSupply

\* A triggering poll returned after every one of MaxNotifiers notifiers
\* failed.
C6_Witness ==
    \E w \in Watchers :
        /\ pc[w] = "returned"
        /\ event[w] # Nil
        /\ nNotifiers = MaxNotifiers
        /\ \A i \in DOMAIN attempts[w] : ~attempts[w][i].ok

\* C7: a poll whose decimals fetch fails fetches no supply and leaves
\* decimalsLoaded false and the baseline unchanged; no supply is fetched
\* without decimals; once decimals are loaded the watcher never asks for
\* them again and the value it holds never changes.
C7_DecimalsOnce ==
    /\ [][\A w \in Watchers :
            (pc[w] = "decimals" /\ pc'[w] # "decimals" /\ ~decimalsLoaded'[w])
            => /\ pc'[w] = "returned"
               /\ lastCheck'[w] = "fetch decimals"
               /\ totalSupply'[w] = Nil
               /\ lastTotalSupply'[w] = lastTotalSupply[w]]_vars
    /\ [][\A w \in Watchers :
            decimalsLoaded[w]
            => /\ decimalsLoaded'[w]
               /\ decimals'[w] = decimals[w]
               /\ decimalsFetched'[w] = decimalsFetched[w]
               /\ pc'[w] # "decimals"]_vars
    /\ [](\A w \in Watchers :
            /\ pc[w] \in {"supply", "notify"} => decimalsLoaded[w]
            /\ decimalsLoaded[w] <=> decimalsFetched[w] = 1)

\* A poll whose decimals fetch failed has returned.
C7_Witness ==
    \E w \in Watchers :
        /\ pc[w] = "returned"
        /\ lastCheck[w] = "fetch decimals"
        /\ ~decimalsLoaded[w]

\* C8 as stated: once the cancellation signal is raised no watcher begins
\* a poll.
C8_NoPollAfterCancelOriginal ==
    [][\A w \in Watchers : cancelled => ~PollBegins(w)]_vars

\* C8 amended: once the signal is raised, a watcher waiting at its select
\* with no tick pending can stop and cannot begin a poll.
C8_StopsAtSelect ==
    \A w \in Watchers :
        (Alive /\ cancelled /\ pc[w] = "select" /\ ~tick[w])
        => (ENABLED WatcherStop(w)) /\ ~(ENABLED WatcherTick(w))

\* A watcher at its select, the signal raised, no tick pending.
C8_Witness ==
    \E w \in Watchers : Alive /\ cancelled /\ pc[w] = "select" /\ ~tick[w]

\* C9 as stated: Run has returned only if every watcher task has stopped.
C9_RunWaitsForWatchersOriginal ==
    runPc = "returned" => \A w \in Watchers : pc[w] = "stopped"

\* C9 amended: Run returns the cancellation error only after the signal is
\* raised and every watcher task is started; it does not wait for them.
C9_RunReturnsAfterCancel ==
    runErr = "context canceled"
    => /\ cancelled
       /\ spawned = nAssets
       /\ \A w \in Watchers : pc[w] # "unspawned"

\* Run has returned while a watcher is in the middle of a poll.
C9_Witness ==
    /\ runPc = "returned"
    /\ runErr = "context canceled"
    /\ \E w \in Watchers : pc[w] \in {"decimals", "supply", "notify"}

\* C10: with at least one watcher, Run does not return while the signal is
\* unraised; once it is raised Run eventually returns, with the
\* cancellation error, which main treats as a clean shutdown.
C10_RunUntilCancelled ==
    /\ [](nAssets >= 1
          => /\ runPc = "returned" => (cancelled /\ runErr = "context canceled")
             /\ mainExit # "fatal"
             /\ mainExit = "clean" => runErr = "context canceled")
    /\ ((nAssets >= 1 /\ cancelled) ~> (runPc = "returned"))

\* A clean exit of a run in which a check had failed.
C10_Witness ==
    /\ mainExit = "clean"
    /\ \E w \in Watchers : pc[w] = "returned" /\ lastCheck[w] \in CheckErrors

\* An AssetConfig fails validation: its address is empty or no hex string,
\* its target is no integer, its poll interval is no duration or is not
\* positive.
FailsValidation(a) ==
    \/ a.Address \in {EmptyAddress, TextAddress}
    \/ a.TargetCapTokens # <<>> /\ ~SetString(a.TargetCapTokens).ok
    \/ a.PollInterval # "" /\ ~ParseDuration(a.PollInterval).ok
    \/ a.PollInterval # "" /\ ParseDuration(a.PollInterval).d <= 0

\* C11: if any configured asset fails validation there is never a Service:
\* no watcher exists for any asset, Run is never called, no goroutine is
\* started, and main does not end cleanly.
C11_InvalidAssetAbortsStart ==
    (\E i \in DOMAIN cfg.Assets : FailsValidation(cfg.Assets[i]))
    => /\ nAssets = 0
       /\ pc = <<>>
       /\ runPc = "new"
       /\ spawned = 0
       /\ mainExit \in {"running", "fatal"}

\* main has ended in log.Fatalf on a configuration with a valid asset listed
\* before an invalid one.
C11_Witness ==
    /\ mainExit = "fatal"
    /\ runPc = "new"
    /\ Len(cfg.Assets) > 1
    /\ ~FailsValidation(cfg.Assets[1])
    /\ \E i \in DOMAIN cfg.Assets : FailsValidation(cfg.Assets[i])

\* C12 as stated: in every state a watcher's baseline is unset or equal to
\* the answer of its most recent successful totalSupply call.
C12_BaselineIsLatestFetchOriginal ==
    \A w \in Watchers :
        lastTotalSupply[w] = Nil \/ lastTotalSupply[w] = observed[w]

\* C12 amended: outside the notifier dispatch of a triggering poll the
\* baseline is the answer of the most recent successful totalSupply call
\* (unset before the first); during the dispatch it is still the previous
\* answer; it changes only in the step that ends a poll whose fetch
\* succeeded, to that poll's value; once set it is never unset.
C12_BaselineFollowsFetch ==
    /\ [](\A w \in Watchers :
            /\ pc[w] # "notify" => lastTotalSupply[w] = observed[w]
            /\ pc[w] = "notify"
               => /\ observed[w] = totalSupply[w]
                  /\ lastTotalSupply[w] # Nil
                  /\ lastTotalSupply[w] # observed[w])
    /\ [][\A w \in Watchers :
            lastTotalSupply'[w] # lastTotalSupply[w]
            => /\ pc[w] \in {"supply", "notify"}
               /\ pc'[w] = "returned"
               /\ totalSupply'[w] # Nil
               /\ lastTotalSupply'[w] = totalSupply'[w]
               /\ lastTotalSupply'[w] = observed'[w]]_vars
    /\ [][\A w \in Watchers :
            lastTotalSupply[w] # Nil => lastTotalSupply'[w] # Nil]_vars

\* A poll has overwritten the baseline with a changed value that fired no
\* trigger.
C12_Witness ==
    \E w \in Watchers :
        /\ pc[w] = "returned"
        /\ lastCheck[w] = "silent"
        /\ lastTotalSupply[w] = totalSupply[w]
        /\ lastTotalSupply[w] = observed[w]

C14_PollsNeverOverlap ==
    /\ [][\A w \in Watchers :
            /\ (pc'[w] = "decimals" /\ pc[w] # "decimals")
               => pc[w] \in {"spawned", "select"}
            /\ (pc'[w] = "supply" /\ pc[w] # "supply")
               => pc[w] \in {"spawned", "select", "decimals"}
            /\ (tick[w] /\ ~tick'[w]) => (pc[w] = "select" /\ PollBegins(w))
            /\ (InPoll(w) /\ tick[w]) => tick'[w]]_vars
    /\ [](\A w \in Watchers : InPoll(w) => ~(ENABLED WatcherTick(w)))

\* A tick is waiting in ticker.C while the watcher is in the notifier
\* dispatch of a poll.
C14_Witness ==
    \E w \in Watchers :
        /\ Alive
        /\ pc[w] = "notify"
        /\ tick[w]
        /\ attempts[w] # <<>>

\* C15: a step that changes one watcher's lastTotalSupply, decimals or
\* decimalsLoaded is a step of that watcher and changes no other watcher's
\* fields or position; and wherever the other watchers are, also inside a
\* chain query or a notifier call that never returns, a watcher's next
\* step (start, tick, answer of a query, notifier call, return) can be taken.
C15_WatchersIndependent ==
    /\ [][\A w \in Watchers :
            (\/ lastTotalSupply'[w] # lastTotalSupply[w]
             \/ decimals'[w] # decimals[w]
             \/ decimalsLoaded'[w] # decimalsLoaded[w])
            => /\ pc'[w] # pc[w]
               /\ \A u \in Watchers \ {w} :
                    /\ pc'[u] = pc[u]
                    /\ lastTotalSupply'[u] = lastTotalSupply[u]
                    /\ decimals'[u] = decimals[u]
                    /\ decimalsLoaded'[u] = decimalsLoaded[u]]_vars
    /\ [](\A u \in Watchers :
            Alive
            => /\ pc[u] = "spawned" => ENABLED WatcherStart(u)
               /\ (pc[u] = "select" /\ tick[u]) => ENABLED WatcherTick(u)
               /\ pc[u] = "decimals"
                  => \E d \in chain.decimals : ENABLED DecimalsOk(u, d)
               /\ pc[u] = "supply"
                  => \E v \in chain.supplies[address[u]] : ENABLED SupplyOk(u, v)
               /\ pc[u] = "notify"
                  => (ENABLED NotifyCall(u, TRUE)) \/ (ENABLED CheckFinish(u))
               /\ pc[u] = "returned" => ENABLED WatcherLog(u))

\* One watcher has completed a poll and waits at its select while another,
\* which holds nothing yet, is inside its decimals query.
C15_Witness ==
    \E w \in Watchers :
        \E u \in Watchers \ {w} :
            /\ Alive
            /\ pc[w] = "decimals"
            /\ lastTotalSupply[w] = Nil
            /\ pc[u] = "select"
            /\ lastTotalSupply[u] # Nil

\* C16 as stated: for every address the remote decimals query succeeds at
\* most once.
C16_RemoteDecimalsOnceOriginal ==
    \A a \in DOMAIN remoteDecimals : remoteDecimals[a] <= 1

\* C16 amended: an answer of the remote query is in the cache from the step
\* in which it arrives; a Decimals call that begins when the cache holds the
\* address is answered from the cache, with no remote query; the remote
\* query for an address succeeds at most once per watcher configured with
\* it, hence at most once for an address only one watcher uses.
C16_CacheAnswersLaterCalls ==
    /\ [](\A a \in DOMAIN remoteDecimals :
            /\ remoteDecimals[a] > 0 <=> decimalsCache[a] # Nil
            /\ remoteDecimals[a] <= Cardinality({w \in Watchers : address[w] = a}))
    /\ [][\A w \in Watchers :
            (PollBegins(w) /\ ~decimalsLoaded[w] /\ decimalsCache[address[w]] # Nil)
            => /\ pc'[w] = "supply"
               /\ decimalsLoaded'[w]
               /\ decimals'[w] = Val(decimalsCache[address[w]])
               /\ remoteDecimals' = remoteDecimals
               /\ decimalsCache' = decimalsCache]_vars

\* Two watchers share an address, one was answered by the remote query and
\* the cache holds the answer, the other has loaded its decimals too.
C16_Witness ==
    \E w \in Watchers :
        \E u \in Watchers \ {w} :
            /\ address[w] = address[u]
            /\ decimalsLoaded[w]
            /\ decimalsLoaded[u]
            /\ decimalsCache[address[w]] # Nil
            /\ remoteDecimals[address[w]] = 1

\* C17: the notifier calls of a poll are calls of notifiers 1, 2, ... in
\* that order, each at most once and each with the event this poll built; a
\* poll that dispatched returns after exactly one call per configured
\* notifier, whatever the calls returned; outside a dispatch there is no
\* event and no call, so no event outlives its poll.
C17_EachNotifierOnceInOrder ==
    /\ [](\A w \in Watchers :
            /\ Len(attempts[w]) <= nNotifiers
            /\ \A i \in DOMAIN attempts[w] :
                 /\ attempts[w][i].notifier = i
                 /\ event[w] # Nil
                 /\ attempts[w][i].event = Val(event[w])
                 /\ attempts[w][i].event.NewTotalSupply = totalSupply[w]
            /\ (pc[w] = "returned" /\ lastCheck[w] = "notified")
               => Len(attempts[w]) = nNotifiers
            /\ pc[w] \notin {"notify", "returned"}
               => (event[w] = Nil /\ attempts[w] = <<>>))
    /\ [][\A w \in Watchers :
            attempts'[w] # attempts[w]
            => \/ /\ pc[w] = "notify"
                  /\ Len(attempts'[w]) = Len(attempts[w]) + 1
                  /\ SubSeq(attempts'[w], 1, Len(attempts[w])) = attempts[w]
                  /\ event'[w] = event[w]
               \/ /\ pc[w] = "returned"
                  /\ attempts'[w] = <<>>
                  /\ event'[w] = Nil]_vars

\* A dispatch to two notifiers has returned: the first call failed, the
\* second succeeded, the baseline has advanced.
C17_Witness ==
    \E w \in Watchers :
        /\ pc[w] = "returned"
        /\ lastCheck[w] = "notified"
        /\ Len(attempts[w]) = 2
        /\ ~attempts[w][1].ok
        /\ attempts[w][2].ok
        /\ lastTotalSupply[w] = totalSupply[w]

\* C18: the event a poll builds has at least one reason, the baseline the
\* watcher held when the poll began as old supply, the fetched value as new
\* supply, different from the old one, and the watcher's target (nil if it
\* has none); every event handed to a notifier is such an event. The two
\* scenarios: [1000000, 1120000] with default flags and [500, 400] with
\* notifyOnDecrease give no event for the first value and one for the second.
C18_EventContents ==
    /\ [][\A w \in Watchers :
            (SupplyObserved(w) /\ event'[w] # Nil)
            => LET e == Val(event'[w])
               IN  /\ Len(e.TriggerReasons) > 0
                   /\ lastTotalSupply[w] # Nil
                   /\ e.OldTotalSupply = lastTotalSupply[w]
                   /\ e.NewTotalSupply = totalSupply'[w]
                   /\ e.NewTotalSupply # e.OldTotalSupply
                   /\ e.TargetTotalSupply = targetTotalSupply[w]
                   /\ lastTotalSupply'[w] = lastTotalSupply[w]]_vars
    /\ [](\A w \in Watchers :
            \A i \in DOMAIN attempts[w] :
                LET e == attempts[w][i].event
                IN  /\ Len(e.TriggerReasons) > 0
                    /\ e.OldTotalSupply # Nil
                    /\ e.NewTotalSupply = totalSupply[w]
                    /\ e.NewTotalSupply # e.OldTotalSupply
                    /\ e.TargetTotalSupply = targetTotalSupply[w]
                    /\ pc[w] = "notify" => e.OldTotalSupply = lastTotalSupply[w])
    /\ [](/\ CheckPath(Nil, 1000000,
                       evaluateTriggers(Nil, Nil, TRUE, FALSE, 1000000)) = "baseline"
          /\ evaluateTriggers({1000000}, Nil, TRUE, FALSE, 1120000)
             = << <<"increase", 1000000, 1120000>> >>
          /\ CheckPath({1000000}, 1120000,
                       evaluateTriggers({1000000}, Nil, TRUE, FALSE, 1120000)) = "notify"
          /\ CheckPath(Nil, 500,
                       evaluateTriggers(Nil, Nil, TRUE, TRUE, 500)) = "baseline"
          /\ evaluateTriggers({500}, Nil, TRUE, TRUE, 400)
             = << <<"decrease", 500, 400>> >>
          /\ CheckPath({500}, 400,
                       evaluateTriggers({500}, Nil, TRUE, TRUE, 400)) = "notify")

\* A watcher configured with both flags left out and no target has handed
\* the event of a rise from SupplyBase to SupplyBase + MaxDelta to its
\* notifier.
C18_Witness ==
    \E w \in Watchers :
        /\ cfg.Assets[w].NotifyOnIncrease = Nil
        /\ cfg.Assets[w].NotifyOnDecrease = Nil
        /\ targetTotalSupply[w] = Nil
        /\ Len(attempts[w]) = 1
        /\ attempts[w][1].event.OldTotalSupply = {SupplyBase}
        /\ attempts[w][1].event.NewTotalSupply = {SupplyBase + MaxDelta}
        /\ Kinds(attempts[w][1].event.TriggerReasons) = {"increase"}

\* The kinds of a reason list, in order.
KindSeq(rs) == [i \in DOMAIN rs |-> rs[i][1]]

\* C19: no reason list that evaluateTriggers returned, and no event built
\* or handed to a notifier, holds both an increase and a decrease reason;
\* one that holds both an increase and a target reason holds the increase
\* reason first and the target reason second.
C19_ReasonCombinations ==
    \A w \in Watchers :
        \A rs \in {reasons[w]}
                  \cup {e.TriggerReasons : e \in event[w]}
                  \cup {attempts[w][i].event.TriggerReasons : i \in DOMAIN attempts[w]} :
            /\ ~({"increase", "decrease"} \subseteq Kinds(rs))
            /\ {"increase", "target"} \subseteq Kinds(rs)
               => KindSeq(rs) = <<"increase", "target">>

\* An event with an increase reason followed by a target reason has been
\* handed to a notifier.
C19_Witness ==
    \E w \in Watchers :
        /\ attempts[w] # <<>>
        /\ KindSeq(attempts[w][1].event.TriggerReasons) = <<"increase", "target">>

\* C20 as stated: every watcher NewService constructed, started or not, has
\* no target or a target that is not negative.
C20_TargetsNonNegative ==
    \A w \in Watchers :
        targetTotalSupply[w] = Nil \/ Val(targetTotalSupply[w]) >= 0

\* C21: no reason list that evaluateTriggers returned, and no event built
\* or handed to a notifier, holds both a decrease and a target reason;
\* every reason list is empty, one directional reason, one target reason,
\* or an increase reason followed by a target reason.
C21_DecreaseExcludesTarget ==
    \A w \in Watchers :
        \A rs \in {reasons[w]}
                  \cup {e.TriggerReasons : e \in event[w]}
                  \cup {attempts[w][i].event.TriggerReasons : i \in DOMAIN attempts[w]} :
            /\ ~({"decrease", "target"} \subseteq Kinds(rs))
            /\ Len(rs) <= 2
            /\ KindSeq(rs) \in {<<>>, <<"increase">>, <<"decrease">>, <<"target">>,
                                <<"increase", "target">>}

\* An event with the decrease reason alone has been handed to a notifier
\* after the supply fell from at or above the watcher's target to below it.
C21_Witness ==
    \E w \in Watchers :
        /\ attempts[w] # <<>>
        /\ targetTotalSupply[w] # Nil
        /\ KindSeq(attempts[w][1].event.TriggerReasons) = <<"decrease">>
        /\ Val(attempts[w][1].event.OldTotalSupply) >= Val(targetTotalSupply[w])
        /\ Val(attempts[w][1].event.NewTotalSupply) < Val(targetTotalSupply[w])

\* C22: a totalSupply answer that is at or above the watcher's previous
\* answer and at most 10% above it yields no increase reason, in the reason
\* list and in the event if one is built, whatever the answers before were;
\* when such an answer arrives the baseline is the previous answer.
C22_SmallRisesNeverFireIncrease ==
    /\ [][\A w \in Watchers :
            (SupplyObserved(w) /\ SmallRise(observed[w], Val(totalSupply'[w])))
            => /\ lastTotalSupply[w] = observed[w]
               /\ "increase" \notin Kinds(reasons'[w])
               /\ \A e \in event'[w] : "increase" \notin Kinds(e.TriggerReasons)
               /\ runBase'[w] = runBase[w]]_vars
    /\ [](\A w \in Watchers :
            /\ observed[w] = Nil <=> runBase[w] = Nil
            /\ observed[w] # Nil => Val(runBase[w]) <= Val(observed[w]))

\* A watcher with notifyOnIncrease has returned from a poll that fired
\* nothing, at the end of a run of small rises that began at a positive
\* supply and has gained more than 10% on it.
C22_Witness ==
    \E w \in Watchers :
        /\ notifyOnIncrease[w]
        /\ pc[w] = "returned"
        /\ lastCheck[w] = "silent"
        /\ runBase[w] # Nil
        /\ Val(runBase[w]) > 0
        /\ Val(totalSupply[w]) * 100 > Val(runBase[w]) * 110

\* C23: if cancellation is never raised, every watcher NewService built
\* eventually holds a baseline, however many of its polls failed before.
C23_EventuallyTracking ==
    ([](~cancelled))
    => \A w \in 1 .. MaxAssets :
         (w \in Watchers) ~> (w \in Watchers /\ lastTotalSupply[w] # Nil)

\* A watcher whose startup poll loaded the decimals and then failed at the
\* totalSupply call waits at its select without a baseline, the signal
\* unraised, while the ticker has not fired again yet.
C23_Witness ==
    \E w \in Watchers :
        /\ Alive
        /\ ~cancelled
        /\ pc[w] = "select"
        /\ ~tick[w]
        /\ decimalsLoaded[w]
        /\ lastTotalSupply[w] = Nil

====
